---------------------------- MODULE Spec2Model ----------------------------
(***************************************************************************)
(* IMU tooling: the serial capture loop (imu_calibration/serial_capture.py *)
(* and imudata2/accely/serial_capture.py) and the two batch processors     *)
(* (imu_calibration/process_imu.py, 14 columns, and                        *)
(* imu_calibration/imu_data_process.py, 7 columns).                        *)
(*                                                                         *)
(* Bytes and decoded characters are integers (a byte value, a code point). *)
(* Python floats are exact rationals <<numerator, denominator>> in lowest  *)
(* terms with a positive denominator; Python ints are integers.  A square  *)
(* root that is not rational is kept as <<n, d, 2>>, the root of n/d.      *)
(***************************************************************************)
EXTENDS Integers, Sequences, FiniteSets, TLC

\* Number of input segments the byte source delivers in one acquisition.
MaxSegs == 2

\* Number of text lines in the file given to a batch processor.
MaxRows == 3

----------------------------------------------------------------------------
(* Characters the code names.                                              *)

NL == 10
COMMA == 44
EQUALS == 61
POINT == 46
MINUS == 45
PLUS == 43
ZERO == 48

\* "Quaternion:"
Marker == <<81, 117, 97, 116, 101, 114, 110, 105, 111, 110, 58>>

\* "Quaternion: "
MarkerSp == <<81, 117, 97, 116, 101, 114, 110, 105, 111, 110, 58, 32>>

\* ", "
CommaSp == <<44, 32>>

----------------------------------------------------------------------------
(* Sequence helpers: what the Python bytes / str methods compute.          *)

MinOf(S) == CHOOSE x \in S : \A y \in S : x <= y

\* b in s
Contains(s, b) == \E i \in 1..Len(s) : s[i] = b

\* s.find(p, i), 1-based, 0 when absent
RECURSIVE FindFrom(_, _, _)
FindFrom(s, p, i) ==
  IF i + Len(p) - 1 > Len(s) THEN 0
  ELSE IF \A j \in 1..Len(p) : s[i + j - 1] = p[j] THEN i
  ELSE FindFrom(s, p, i + 1)

\* s.find(p), 1-based, 0 when absent
Find(s, p) == FindFrom(s, p, 1)

\* s.index(b), 1-based; only used when Contains(s, b)
Index(s, b) == Find(s, <<b>>)

\* s.count(c) for a single character c
Count(s, c) == Cardinality({i \in 1..Len(s) : s[i] = c})

\* s.startswith(p)
StartsWith(s, p) == Len(s) >= Len(p) /\ SubSeq(s, 1, Len(p)) = p

\* s.split(p) for a non-empty separator p
RECURSIVE Split(_, _)
Split(s, p) ==
  LET i == Find(s, p)
  IN IF i = 0 THEN <<s>>
     ELSE <<SubSeq(s, 1, i - 1)>> \o Split(SubSeq(s, i + Len(p), Len(s)), p)

\* s.replace(old, new), left to right, non-overlapping
RECURSIVE Replace(_, _, _)
Replace(s, old, new) ==
  LET i == Find(s, old)
  IN IF i = 0 THEN s
     ELSE SubSeq(s, 1, i - 1) \o new
            \o Replace(SubSeq(s, i + Len(old), Len(s)), old, new)

\* str.isspace() of one code point below U+0800
IsSpace(c) == c \in ((9..13) \cup (28..32) \cup {133, 160})

\* s.lstrip()
RECURSIVE LStrip(_)
LStrip(s) == IF s # <<>> /\ IsSpace(s[1]) THEN LStrip(Tail(s)) ELSE s

\* s.rstrip()
RECURSIVE RStrip(_)
RStrip(s) ==
  IF s # <<>> /\ IsSpace(s[Len(s)]) THEN RStrip(SubSeq(s, 1, Len(s) - 1)) ELSE s

\* s.strip()
Strip(s) == RStrip(LStrip(s))

----------------------------------------------------------------------------
(* Decoding.  UTF-8 is modelled for one- and two-byte forms; of the bytes  *)
(* the inputs below use no byte from 0xE0 up (the longer forms).           *)

RECURSIVE Utf8Valid(_)
Utf8Valid(bs) ==
  IF bs = <<>> THEN TRUE
  ELSE IF bs[1] < 128 THEN Utf8Valid(Tail(bs))
  ELSE IF bs[1] \in 194..223 /\ Len(bs) >= 2 /\ bs[2] \in 128..191
       THEN Utf8Valid(SubSeq(bs, 3, Len(bs)))
  ELSE FALSE

RECURSIVE Utf8Decode(_)
Utf8Decode(bs) ==
  IF bs = <<>> THEN <<>>
  ELSE IF bs[1] < 128 THEN <<bs[1]>> \o Utf8Decode(Tail(bs))
  ELSE <<(bs[1] - 192) * 64 + (bs[2] - 128)>> \o Utf8Decode(SubSeq(bs, 3, Len(bs)))

\* a fallback that replaces what is not ASCII: decode("ascii", errors="replace")
MutLatin1Decode(bs) == [i \in 1..Len(bs) |-> IF bs[i] < 128 THEN bs[i] ELSE 65533]

\* bytes.decode("ISO-8859-1"): byte b is code point b
Latin1Decode(bs) == bs

\* try decode("utf-8") except UnicodeDecodeError: decode("ISO-8859-1"); then strip()
DecodeLine(bs) ==
  Strip(IF Utf8Valid(bs) THEN Utf8Decode(bs) ELSE Latin1Decode(bs))

----------------------------------------------------------------------------
(* Numbers.  float() and int() are modelled on text made of ASCII digits,  *)
(* sign, point and white space; exponents, underscores and inf/nan do not  *)
(* occur in any field the inputs below can produce (letters occur only     *)
(* inside the word "Quaternion" or next to '=' or ':').                    *)

RECURSIVE GCD(_, _)
GCD(a, b) == IF b = 0 THEN a ELSE GCD(b, a % b)

Abs(x) == IF x < 0 THEN -x ELSE x

\* the rational n/d in lowest terms, d # 0
Rat(n, d) ==
  LET g == GCD(Abs(n), Abs(d))
      s == IF d < 0 THEN -1 ELSE 1
  IN <<(s * n) \div g, (s * d) \div g>>

RAdd(p, q) == Rat(p[1] * q[2] + q[1] * p[2], p[2] * q[2])

RSub(p, q) == Rat(p[1] * q[2] - q[1] * p[2], p[2] * q[2])

RMul(p, q) == Rat(p[1] * q[1], p[2] * q[2])

\* p / q, q # 0
RDiv(p, q) == Rat(p[1] * q[2], p[2] * q[1])

RInt(n) == <<n, 1>>

IsDigit(c) == c \in 48..57

RECURSIVE DigitsVal(_)
DigitsVal(ds) ==
  IF ds = <<>> THEN 0
  ELSE DigitsVal(SubSeq(ds, 1, Len(ds) - 1)) * 10 + (ds[Len(ds)] - ZERO)

RECURSIVE Pow10(_)
Pow10(k) == IF k = 0 THEN 1 ELSE 10 * Pow10(k - 1)

Unsigned(t) == IF t # <<>> /\ t[1] \in {MINUS, PLUS} THEN Tail(t) ELSE t

Sign(t) == IF t # <<>> /\ t[1] = MINUS THEN -1 ELSE 1

\* int(s) does not raise ValueError
IntOk(s) ==
  LET u == Unsigned(Strip(s))
  IN u # <<>> /\ \A i \in 1..Len(u) : IsDigit(u[i])

\* int(s)
IntVal(s) == LET t == Strip(s) IN Sign(t) * DigitsVal(Unsigned(t))

\* float(s) does not raise ValueError
FloatOk(s) ==
  LET u == Unsigned(Strip(s))
  IN /\ \A i \in 1..Len(u) : IsDigit(u[i]) \/ u[i] = POINT
     /\ Count(u, POINT) <= 1
     /\ \E i \in 1..Len(u) : IsDigit(u[i])

\* float(s)
FloatVal(s) ==
  LET t == Strip(s)
      u == Unsigned(t)
      p == IF Contains(u, POINT) THEN Index(u, POINT) ELSE Len(u) + 1
      ds == SubSeq(u, 1, p - 1) \o SubSeq(u, p + 1, Len(u))
      k == IF p > Len(u) THEN 0 ELSE Len(u) - p
  IN Rat(Sign(t) * DigitsVal(ds), Pow10(k))

----------------------------------------------------------------------------
(* State.                                                                  *)

VARIABLES
  module,         \* capture: which serial_capture.py runs
  stream,         \* capture: the bytes the device sends during the run
  pos,            \* capture: how many of them read_all() has returned
  ser,            \* capture: "unbound", "open" or "closed"
  buffer,         \* capture: bytearray of bytes not yet framed
  line,           \* capture: the decoded line being classified
  lines,          \* capture: every decoded line handed to the classifier
  carried,        \* capture: a read has been appended to a non-empty buffer
  raw_data,       \* capture: 7-field records
  filtered_data,  \* capture: copy of raw_data (imu_calibration only)
  quat_data,      \* capture: [w, x, y, z] records (imu_calibration only)
  invalid_count,  \* capture: lines rejected
  file,           \* batch: the text lines of the input file
  calib,          \* batch: the calibration profile
  line_num,       \* batch: lines consumed from the file
  valid_line_count, \* batch (process_imu): rows stored
  time_stamps,    \* batch, in milliseconds
  accel,          \* batch: three lists
  gyro,           \* batch: three lists
  temperature,    \* batch
  accel_filt,     \* batch (process_imu): three lists
  gyro_filt,      \* batch (process_imu): three lists
  temp_filt,      \* batch (process_imu)
  temp_windows,   \* batch: window index -> readings
  pc,             \* where control is
  result          \* how the function ended: [kind, value]

captureVars ==
  <<module, stream, pos, ser, buffer, line, lines, carried, raw_data,
    filtered_data, quat_data, invalid_count>>

batchVars ==
  <<file, calib, line_num, valid_line_count, time_stamps, accel, gyro,
    temperature, accel_filt, gyro_filt, temp_filt, temp_windows>>

vars == <<captureVars, batchVars, pc, result>>

NoResult == [kind |-> "none", value |-> <<>>]

----------------------------------------------------------------------------
(* capture_serial_data: the line framer and the classifier.                *)

\* a framer that keeps only the newest read: buffer = bytearray(data)
MutExtend(buf, data) == data

\* buffer.extend(data)
Extend(buf, data) == buf \o data

\* a loop that looks for a CR LF pair: while b'\r\n' in buffer
MutMoreLines(buf) == Find(buf, <<13, NL>>) # 0

\* while b'\n' in buffer
MoreLines(buf) == Contains(buf, NL)

\* line_end = buffer.index(b'\n'); the span decoded is buffer[:line_end]
LineSpan(buf) == SubSeq(buf, 1, Index(buf, NL) - 1)

\* a framer that empties the buffer after a line: buffer.clear()
MutClearLine(buf) == <<>>

\* a deletion that stops short of the terminator: del buffer[:line_end]
MutDelLine(buf) == SubSeq(buf, Index(buf, NL), Len(buf))

\* del buffer[:line_end+1]
DelLine(buf) == SubSeq(buf, Index(buf, NL) + 1, Len(buf))

\* the quaternion branch does not raise: four "name=value" parts with float values
QuatOk(ln) ==
  LET parts == Split(Replace(ln, MarkerSp, <<>>), CommaSp)
  IN /\ Len(parts) >= 4
     /\ \A k \in 1..4 :
          LET kv == Split(parts[k], <<EQUALS>>)
          IN Len(kv) >= 2 /\ FloatOk(kv[2])

\* [w, x, y, z]
QuatVal(ln) ==
  LET parts == Split(Replace(ln, MarkerSp, <<>>), CommaSp)
  IN [k \in 1..4 |-> FloatVal(Split(parts[k], <<EQUALS>>)[2])]

\* the sensor branch does not raise: six floats and an int
SensorOk(ln) ==
  LET parts == Split(ln, <<COMMA>>)
  IN (\A k \in 1..6 : FloatOk(parts[k])) /\ IntOk(parts[7])

\* accel + gyro + [temp]
SensorVal(ln) ==
  LET parts == Split(ln, <<COMMA>>)
  IN [k \in 1..7 |-> IF k <= 6 THEN FloatVal(parts[k]) ELSE IntVal(parts[k])]

\* a classifier that tests the comma count before the quaternion marker
MutBranchOrder(mod, ln) ==
  IF Count(ln, COMMA) = 6 THEN "sensor"
  ELSE IF mod = "imu_calibration" /\ StartsWith(ln, Marker) THEN "quaternion"
  ELSE "other"

\* a classifier that counts fields where the code counts commas
MutBranch(mod, ln) ==
  IF mod = "imu_calibration" /\ StartsWith(ln, Marker) THEN "quaternion"
  ELSE IF Count(ln, COMMA) = 7 THEN "sensor"
  ELSE "other"

\* the branch of the classifier that takes the line
Branch(mod, ln) ==
  IF mod = "imu_calibration" /\ StartsWith(ln, Marker) THEN "quaternion"
  ELSE IF Count(ln, COMMA) = 6 THEN "sensor"
  ELSE "other"

\* a classifier without the final else: an unrecognised line is dropped uncounted
MutClassifyLine(mod, acc, ln) ==
  LET br == Branch(mod, ln)
  IN IF br = "quaternion" /\ QuatOk(ln)
       THEN [acc EXCEPT !.quat_data = Append(@, QuatVal(ln))]
     ELSE IF br = "sensor" /\ SensorOk(ln)
       THEN [acc EXCEPT !.raw_data = Append(@, SensorVal(ln)),
                        !.filtered_data =
                           IF mod = "imu_calibration"
                           THEN Append(@, SensorVal(ln)) ELSE @]
     ELSE IF br = "other" THEN acc
     ELSE [acc EXCEPT !.invalid_count = @ + 1]

\* the accumulators after the classifier has handled one line
ClassifyLine(mod, acc, ln) ==
  LET br == Branch(mod, ln)
  IN IF br = "quaternion" /\ QuatOk(ln)
       THEN [acc EXCEPT !.quat_data = Append(@, QuatVal(ln))]
     ELSE IF br = "sensor" /\ SensorOk(ln)
       THEN [acc EXCEPT !.raw_data = Append(@, SensorVal(ln)),
                        !.filtered_data =
                           IF mod = "imu_calibration"
                           THEN Append(@, SensorVal(ln)) ELSE @]
     ELSE [acc EXCEPT !.invalid_count = @ + 1]

Acc ==
  [raw_data |-> raw_data, filtered_data |-> filtered_data,
   quat_data |-> quat_data, invalid_count |-> invalid_count]

\* the value of the return statement
ReturnOf(mod, acc) ==
  IF mod = "imu_calibration"
  THEN <<acc.raw_data, acc.filtered_data, acc.quat_data, acc.invalid_count>>
  ELSE <<acc.raw_data, acc.invalid_count>>

ReturnValue == ReturnOf(module, Acc)

\* the inner while loop run to its end on a buffer: st = [buffer, lines, acc]
RECURSIVE DrainAll(_, _)
DrainAll(mod, st) ==
  IF ~MoreLines(st.buffer) THEN st
  ELSE LET ln == DecodeLine(LineSpan(st.buffer))
       IN DrainAll(mod, [buffer |-> DelLine(st.buffer),
                         lines |-> Append(st.lines, ln),
                         acc |-> ClassifyLine(mod, st.acc, ln)])

\* the state after one poll that returns all of `bytes` to a fresh function
SingleChunk(mod, bytes) ==
  DrainAll(mod, [buffer |-> bytes, lines |-> <<>>,
                 acc |-> [raw_data |-> <<>>, filtered_data |-> <<>>,
                          quat_data |-> <<>>, invalid_count |-> 0]])

----------------------------------------------------------------------------
(* The device's output: up to MaxSegs pieces, each a whole line or bytes    *)
(* without a terminator, which may begin a line or stay unterminated.      *)

Segments ==
  { <<49, 46, 53, 44, 45, 50, 44, 51, 44, 52, 44, 53, 44, 54, 44, 55, 13, 10>>,
      \* "1.5,-2,3,4,5,6,7\r\n"
    <<10>>,
      \* "\n"
    <<81, 117, 97, 116, 101, 114, 110, 105, 111, 110, 58, 32, 119, 61, 49, 44,
      32, 120, 61, 48, 46, 53, 44, 32, 121, 61, 48, 44, 32, 122, 61, 48, 10>>,
      \* "Quaternion: w=1, x=0.5, y=0, z=0\n"
    <<49, 44, 50, 44, 51, 44, 52, 44, 53, 44, 54, 44, 55, 46, 53, 10>>,
      \* "1,2,3,4,5,6,7.5\n"
    <<81, 117, 97, 116, 101, 114, 110, 105, 111, 110, 58, 32, 44, 44, 44>>,
      \* "Quaternion: ,,," without a terminator: a marker line that does not
      \* parse when a terminator follows, and one with 6 commas that does
      \* when the quaternion line follows
    <<160>>,
      \* 0xA0: not UTF-8 alone; NO-BREAK SPACE in ISO-8859-1
    <<194, 160>>
      \* 0xC2 0xA0: the UTF-8 form of NO-BREAK SPACE
  }

RECURSIVE Streams(_)
Streams(k) ==
  IF k = 0 THEN {<<>>}
  ELSE Streams(k - 1) \cup {s \o g : s \in Streams(k - 1), g \in Segments}

\* the bytes read_all() has returned so far
Received == SubSeq(stream, 1, pos)

----------------------------------------------------------------------------
(* capture_serial_data, step by step.                                      *)

BatchIdle ==
  /\ file = <<>> /\ calib = <<>> /\ line_num = 0 /\ valid_line_count = 0
  /\ time_stamps = <<>> /\ accel = <<>> /\ gyro = <<>> /\ temperature = <<>>
  /\ accel_filt = <<>> /\ gyro_filt = <<>> /\ temp_filt = <<>>
  /\ temp_windows = <<>>

CaptureInit ==
  /\ module \in {"imu_calibration", "accely"}
  /\ stream \in Streams(MaxSegs)
  /\ pos = 0
  /\ ser = "unbound"
  /\ buffer = <<>>
  /\ line = <<>>
  /\ lines = <<>>
  /\ carried = FALSE
  /\ raw_data = <<>>
  /\ filtered_data = <<>>
  /\ quat_data = <<>>
  /\ invalid_count = 0
  /\ pc = "open"
  /\ result = NoResult
  /\ BatchIdle

\* ser = serial.Serial(...) succeeds
Open ==
  /\ pc = "open"
  /\ ser' = "open"
  /\ pc' = "loop"
  /\ UNCHANGED <<module, stream, pos, buffer, line, lines, carried, raw_data,
                 filtered_data, quat_data, invalid_count, batchVars, result>>

\* serial.Serial(...) raises SerialException: ser is never bound
OpenFault ==
  /\ pc = "open"
  /\ pc' = "except"
  /\ UNCHANGED <<captureVars, batchVars, result>>

\* while datetime.now() < end_time: the deadline is not reached
LoopContinue ==
  /\ pc = "loop"
  /\ pc' = "read"
  /\ UNCHANGED <<captureVars, batchVars, result>>

\* a loop without the deadline test: while True
MutDeadline ==
  /\ pc = "loop"
  /\ pc' = "read"
  /\ UNCHANGED <<captureVars, batchVars, result>>

\* the deadline is reached: return the accumulators
Deadline ==
  /\ pc = "loop"
  /\ result' = [kind |-> "return", value |-> ReturnValue]
  /\ pc' = "finally"
  /\ UNCHANGED <<captureVars, batchVars>>

\* data = ser.read_all() is empty
ReadEmpty ==
  /\ pc = "read"
  /\ pc' = "loop"
  /\ UNCHANGED <<captureVars, batchVars, result>>

\* data = ser.read_all() holds the next n bytes; buffer.extend(data)
ReadData ==
  /\ pc = "read"
  /\ \E n \in 1..(Len(stream) - pos) :
       /\ buffer' = Extend(buffer, SubSeq(stream, pos + 1, pos + n))
       /\ pos' = pos + n
  /\ carried' = (carried \/ buffer # <<>>)
  /\ pc' = "drain"
  /\ UNCHANGED <<module, stream, ser, line, lines, raw_data, filtered_data,
                 quat_data, invalid_count, batchVars, result>>

\* ser.read_all() raises SerialException
ReadFault ==
  /\ pc = "read"
  /\ pc' = "except"
  /\ UNCHANGED <<captureVars, batchVars, result>>

\* while b'\n' in buffer: decode the first span, delete it and its terminator
Extract ==
  /\ pc = "drain"
  /\ MoreLines(buffer)
  /\ line' = DecodeLine(LineSpan(buffer))
  /\ buffer' = DelLine(buffer)
  /\ lines' = Append(lines, line')
  /\ pc' = "classify"
  /\ UNCHANGED <<module, stream, pos, ser, carried, raw_data, filtered_data,
                 quat_data, invalid_count, batchVars, result>>

\* the if / elif / else on the decoded line
Classify ==
  /\ pc = "classify"
  /\ LET acc == ClassifyLine(module, Acc, line)
     IN /\ raw_data' = acc.raw_data
        /\ filtered_data' = acc.filtered_data
        /\ quat_data' = acc.quat_data
        /\ invalid_count' = acc.invalid_count
  /\ pc' = "drain"
  /\ UNCHANGED <<module, stream, pos, ser, buffer, line, lines, carried,
                 batchVars, result>>

\* no terminator is left in the buffer: back to the deadline test
DrainDone ==
  /\ pc = "drain"
  /\ ~MoreLines(buffer)
  /\ pc' = "loop"
  /\ UNCHANGED <<captureVars, batchVars, result>>

\* except serial.SerialException: print, sys.exit(1)
Except ==
  /\ pc = "except"
  /\ result' = [kind |-> "SystemExit", value |-> 1]
  /\ pc' = "finally"
  /\ UNCHANGED <<captureVars, batchVars>>

\* a function without the finally clause: the port is left as it is
MutFinally ==
  /\ pc = "finally"
  /\ pc' = "done"
  /\ UNCHANGED <<captureVars, batchVars, result>>

\* finally: if 'ser' in locals() and ser.is_open: ser.close()
Finally ==
  /\ pc = "finally"
  /\ ser' = IF ser = "open" THEN "closed" ELSE ser
  /\ pc' = "done"
  /\ UNCHANGED <<module, stream, pos, buffer, line, lines, carried, raw_data,
                 filtered_data, quat_data, invalid_count, batchVars, result>>

CaptureNext ==
  \/ Open \/ OpenFault \/ LoopContinue \/ Deadline \/ ReadEmpty \/ ReadData
  \/ ReadFault \/ Extract \/ Classify \/ DrainDone \/ Except \/ Finally

SpecCapture == CaptureInit /\ [][CaptureNext]_vars

\* the positions of capture_serial_data
PcValues ==
  {"open", "loop", "read", "drain", "classify", "except", "finally", "done"}

\* the interpreter runs the next statement: until the function has ended its
\* position changes (every action of CaptureNext changes pc, and one of them
\* is enabled at every position but "done")
Executes == pc # "done" /\ pc' \in PcValues \ {pc}

\* the function keeps executing, and the clock read by the loop test reaches
\* end_time: of the tests the loop makes, one finds the deadline reached
SpecCaptureFair ==
  /\ CaptureInit /\ [][CaptureNext]_vars
  /\ WF_pc(Executes)
  /\ SF_vars(Deadline)

----------------------------------------------------------------------------
(* process_imu_data: parsing, calibration, time stamps, windows, stats.    *)
(* Times are in milliseconds: 0.005 s is 5, a window of 0.1 s is 100.      *)

\* seconds per sample, in ms: t = count * 0.005
SamplePeriodMs == 5

\* window_idx = int(t * 10)
WindowsPerSecond == 10

\* load_calibration: the default profile and two loaded ones
Profiles ==
  { [accel_bias |-> <<RInt(0), RInt(0), RInt(0)>>,
     accel_scale |-> <<RInt(1), RInt(1), RInt(1)>>,
     gyro_bias |-> <<RInt(0), RInt(0), RInt(0)>>],
    [accel_bias |-> <<RInt(1), RInt(0), RInt(0)>>,
     accel_scale |-> <<RInt(2), RInt(1), RInt(1)>>,
     gyro_bias |-> <<RInt(0), RInt(0), RInt(0)>>],
    [accel_bias |-> <<RInt(0), RInt(0), <<1, 2>> >>,
     accel_scale |-> <<RInt(1), <<3, 2>>, RInt(1)>>,
     gyro_bias |-> <<(<<1, 2>>), RInt(0), RInt(-1)>>] }

\* csv.reader on a line without quotes: a blank line is the empty row
CsvRow(text) == IF text = <<>> THEN <<>> ELSE Split(text, <<COMMA>>)

\* a calibration that scales before it removes the bias
MutAccelCal(cal, raw) ==
  [i \in 1..3 |-> RSub(RMul(raw[i], cal.accel_scale[i]), cal.accel_bias[i])]

\* (accel_raw[i] - accel_bias[i]) * accel_scale[i]
AccelCal(cal, raw) ==
  [i \in 1..3 |-> RMul(RSub(raw[i], cal.accel_bias[i]), cal.accel_scale[i])]

\* gyro_raw[i] - gyro_bias[i]
GyroCal(cal, raw) == [i \in 1..3 |-> RSub(raw[i], cal.gyro_bias[i])]

\* windows of one second: int(t)
MutWindowIdx(t) == t \div 1000

\* int(t * 10), t in ms
WindowIdx(t) == (t * WindowsPerSecond) \div 1000

\* temp_windows[idx].append(v) on a defaultdict(list)
WindowAppend(w, idx, v) ==
  [k \in (DOMAIN w) \cup {idx} |->
     IF k = idx THEN (IF idx \in DOMAIN w THEN Append(w[idx], v) ELSE <<v>>)
     ELSE w[k]]

\* a store that has reached only the x and y lists when it stops
MutAxesAppend(ch, v) ==
  [i \in 1..3 |-> IF i < 3 THEN Append(ch[i], v[i]) ELSE ch[i]]

\* ch[i].append(v[i]) for the three axes
AxesAppend(ch, v) == [i \in 1..3 |-> Append(ch[i], v[i])]

\* filtered readings stored after the accelerometer calibration
MutFiltPass(cal, filt_raw) == AccelCal(cal, filt_raw)

\* accel_filt[i].append(accel_filt_raw[i]): the calibration is not applied
FiltPass(cal, filt_raw) == filt_raw

\* t = line_num * 0.005 in imu_data_process.py: the number of the line in the file
MutStamp(valid, lineno) == lineno * SamplePeriodMs

\* t = valid_line_count * 0.005 in process_imu.py
Stamp14(valid, lineno) == valid * SamplePeriodMs

\* t = line_num * 0.005 in imu_data_process.py
Stamp7(valid, lineno) == lineno * SamplePeriodMs

\* the try block of process_imu.py does not raise ValueError
Row14Ok(parts) ==
  /\ \A k \in (1..6) \cup (8..13) : FloatOk(parts[k])
  /\ IntOk(parts[7])
  /\ IntOk(parts[14])

\* list(map(float, line.strip().split(','))) succeeds and has 7 entries
Row7Ok(text) ==
  \E f \in {Split(Strip(text), <<COMMA>>)} :
    (\A k \in 1..Len(f) : FloatOk(f[k])) /\ Len(f) = 7

\* xs[lo] + ... + xs[hi], added pairwise
RECURSIVE RSumRange(_, _, _)
RSumRange(xs, lo, hi) ==
  IF lo > hi THEN RInt(0)
  ELSE IF lo = hi THEN xs[lo]
  ELSE RAdd(RSumRange(xs, lo, (lo + hi) \div 2),
            RSumRange(xs, (lo + hi) \div 2 + 1, hi))

\* sum(xs)
RSum(xs) == RSumRange(xs, 1, Len(xs))

IsSquare(n) == \E r \in 0..n : r * r = n

ISqrt(n) == CHOOSE r \in 0..n : r * r = n

\* q ** 0.5 for q >= 0
RSqrt(q) ==
  IF IsSquare(q[1]) /\ IsSquare(q[2]) THEN <<ISqrt(q[1]), ISqrt(q[2])>>
  ELSE <<q[1], q[2], 2>>

\* sum(ch)/len(ch)
Mean(ch) == RDiv(RSum(ch), RInt(Len(ch)))

\* sum((x-mean)**2 for x in ch)
SumSq(ch, mean) ==
  RSum([i \in 1..Len(ch) |-> RMul(RSub(ch[i], mean), RSub(ch[i], mean))])

\* the sample standard deviation: divisor len(ch) - 1
MutStd(ch, mean) ==
  RSqrt(RDiv(SumSq(ch, mean), RInt(IF Len(ch) > 1 THEN Len(ch) - 1 ELSE 1)))

\* (sum((x-mean)**2 for x in ch)/len(ch))**0.5
Std(ch, mean) == RSqrt(RDiv(SumSq(ch, mean), RInt(Len(ch))))

\* calc_stats of imu_data_process.py raises ZeroDivisionError
StatsRaises(data) == \E i \in 1..3 : Len(data[i]) = 0

\* <<mean, std>> of one axis; the mean is computed once
AxisStats(ch) == CHOOSE r \in {<<m, Std(ch, m)>> : m \in {Mean(ch)}} : TRUE

\* calc_stats of imu_data_process.py, when it does not raise
Stats(data, unit) ==
  CHOOSE r \in
    {[bias |-> <<x[1], y[1], z[1]>>, std |-> <<x[2], y[2], z[2]>>, unit |-> unit] :
       x \in {AxisStats(data[1])}, y \in {AxisStats(data[2])},
       z \in {AxisStats(data[3])}} : TRUE

ZeroStats(unit) ==
  [bias |-> <<RInt(0), RInt(0), RInt(0)>>,
   std |-> <<RInt(0), RInt(0), RInt(0)>>,
   unit |-> unit]

\* calc_stats of process_imu.py without its first two lines
MutGuardedStats(data, unit) ==
  IF StatsRaises(data) THEN [bias |-> <<>>, std |-> <<>>, unit |-> unit]
  ELSE Stats(data, unit)

\* calc_stats of process_imu.py
GuardedStats(data, unit) ==
  IF ~(\A i \in 1..3 : Len(data[i]) > 0) THEN ZeroStats(unit)
  ELSE Stats(data, unit)

\* sorted(temp_windows.keys())
RECURSIVE Sorted(_)
Sorted(S) ==
  IF S = {} THEN <<>> ELSE <<MinOf(S)>> \o Sorted(S \ {MinOf(S)})

\* a loop over range(max index + 1) that reports 0 for a window without readings
MutWindowAverages(w) ==
  LET top == IF DOMAIN w = {} THEN -1
             ELSE CHOOSE m \in DOMAIN w : \A k \in DOMAIN w : k <= m
  IN << [j \in 1..(top + 1) |-> (j - 1) * 100 + 50],
        [j \in 1..(top + 1) |->
           IF (j - 1) \in DOMAIN w THEN Mean(w[j - 1]) ELSE RInt(0)] >>

\* the loop over the windows: (window_centers, temp_avg), centers in ms
WindowAverages(w) ==
  LET keys == Sorted({k \in DOMAIN w : w[k] # <<>>})
  IN << [j \in 1..Len(keys) |-> keys[j] * 100 + 50],
        [j \in 1..Len(keys) |-> Mean(w[keys[j]])] >>

\* the int readings of process_imu.py as the floats sum(...)/len(...) works on
AsFloats(w) == [k \in DOMAIN w |-> [i \in 1..Len(w[k]) |-> RInt(w[k][i])]]

\* the dictionary process_imu.py returns
Return14 ==
  [accel |-> GuardedStats(accel, "g"),
   gyro |-> GuardedStats(gyro, "dps"),
   temp_raw |-> <<time_stamps, temperature>>,
   accel_raw |-> <<time_stamps, accel>>,
   gyro_raw |-> <<time_stamps, gyro>>,
   accel_filt |-> <<time_stamps, accel_filt>>,
   gyro_filt |-> <<time_stamps, gyro_filt>>,
   temp_filt |-> <<time_stamps, temp_filt>>,
   temp_avg |-> WindowAverages(AsFloats(temp_windows))]

\* the dictionary imu_data_process.py returns
Return7 ==
  [accel |-> Stats(accel, "g"),
   gyro |-> Stats(gyro, "dps"),
   temp_raw |-> <<time_stamps, temperature>>,
   accel_raw |-> <<time_stamps, accel>>,
   gyro_raw |-> <<time_stamps, gyro>>,
   temp_avg |-> WindowAverages(temp_windows)]

----------------------------------------------------------------------------
(* The input files: up to MaxRows lines of any kind, or a run of equal     *)
(* valid rows that fills the first window and up to MaxRows - 1 lines of   *)
(* any kind after it.  process_imu.py is given a header line first;        *)
(* imu_data_process.py is also given a run of invalid lines as long as the *)
(* first window, which leaves that window without a sample, and a file of  *)
(* three rows whose gyroscope x readings are 1, 2, 3.                      *)

\* "Accel_X_raw"
HeaderLine == <<65, 99, 99, 101, 108, 95, 88, 95, 114, 97, 119>>

\* "3,0,0,1,1,1,25,3.5,0,0,1,1,1,26"
ValidRow14 ==
  <<51, 44, 48, 44, 48, 44, 49, 44, 49, 44, 49, 44, 50, 53, 44, 51, 46, 53, 44,
    48, 44, 48, 44, 49, 44, 49, 44, 49, 44, 50, 54>>

Lines14 ==
  { ValidRow14,
    <<49, 46, 53, 44, 50, 44, 45, 51, 44, 51, 44, 48, 46, 53, 44, 48, 44,
      51, 48, 44, 49, 44, 50, 44, 51, 44, 48, 44, 48, 44, 48, 44, 51, 49>>,
      \* "1.5,2,-3,3,0.5,0,30,1,2,3,0,0,0,31"
    <<51, 44, 48, 44, 48, 44, 49, 44, 49, 44, 49, 44, 50, 53>>,
      \* "3,0,0,1,1,1,25": 7 columns
    <<51, 44, 44, 48, 44, 49, 44, 49, 44, 49, 44, 50, 53, 44, 51, 44, 48, 44,
      48, 44, 49, 44, 49, 44, 49, 44, 50, 53>>,
      \* "3,,0,1,1,1,25,3,0,0,1,1,1,25": an empty field
    <<51, 44, 48, 44, 48, 44, 49, 44, 49, 44, 49, 44, 50, 53, 44, 51, 44, 48,
      44, 48, 44, 49, 44, 49, 44, 49, 44, 50, 46, 53>>,
      \* "3,0,0,1,1,1,25,3,0,0,1,1,1,2.5": the last field is no int
    <<>>
      \* a blank line
  }

\* "3,0,0,1,1,1,25"
ValidRow7 == <<51, 44, 48, 44, 48, 44, 49, 44, 49, 44, 49, 44, 50, 53>>

\* "1.5,2,-3,3,0.5,0,30.5"
SecondRow7 ==
  <<49, 46, 53, 44, 50, 44, 45, 51, 44, 51, 44, 48, 46, 53, 44, 48, 44, 51, 48,
    46, 53>>

\* "0,0,0,2,0,0,20"
ThirdRow7 == <<48, 44, 48, 44, 48, 44, 50, 44, 48, 44, 48, 44, 50, 48>>

Lines7 ==
  { ValidRow7,
    SecondRow7,
    HeaderLine,
    <<51, 44, 48, 44, 48, 44, 49, 44, 49, 44, 49>>,
      \* "3,0,0,1,1,1": 6 fields
    <<>>
      \* a blank line
  }

Repeat(x, n) == [i \in 1..n |-> x]

\* the rows that fill window 0: 0.1 s at 0.005 s a row
FullWindow(row) == Repeat(row, 1000 \div (WindowsPerSecond * SamplePeriodMs))

RECURSIVE Tails(_, _)
Tails(kinds, k) ==
  IF k = 0 THEN {<<>>}
  ELSE Tails(kinds, k - 1)
         \cup {Append(t, x) : t \in Tails(kinds, k - 1), x \in kinds}

Files14 ==
  {<<>>}
    \cup {<<HeaderLine>> \o t : t \in Tails(Lines14, MaxRows)}
    \cup {<<HeaderLine>> \o FullWindow(ValidRow14) \o t :
            t \in Tails(Lines14, MaxRows - 1)}

Files7 ==
  Tails(Lines7, MaxRows)
    \cup {FullWindow(ValidRow7) \o t : t \in Tails(Lines7, MaxRows - 1)}
    \cup {FullWindow(HeaderLine) \o t : t \in Tails(Lines7, MaxRows - 1)}
    \cup {<<ValidRow7, ThirdRow7, SecondRow7>>}

CaptureIdle ==
  /\ stream = <<>> /\ pos = 0 /\ ser = "unbound" /\ buffer = <<>>
  /\ line = <<>> /\ lines = <<>> /\ carried = FALSE /\ raw_data = <<>>
  /\ filtered_data = <<>> /\ quat_data = <<>> /\ invalid_count = 0

captureState ==
  <<stream, pos, ser, buffer, line, lines, carried, raw_data, filtered_data,
    quat_data, invalid_count>>

BatchStart ==
  /\ calib \in Profiles
  /\ line_num = 0
  /\ valid_line_count = 0
  /\ time_stamps = <<>>
  /\ accel = <<(<<>>), (<<>>), (<<>>)>>
  /\ gyro = <<(<<>>), (<<>>), (<<>>)>>
  /\ temperature = <<>>
  /\ temp_windows = <<>>
  /\ result = NoResult
  /\ CaptureIdle

----------------------------------------------------------------------------
(* process_imu.py, step by step.  The row at hand is file[line_num + 1].   *)

Proc14Init ==
  /\ module = "process_imu"
  /\ file \in Files14
  /\ accel_filt = <<(<<>>), (<<>>), (<<>>)>>
  /\ gyro_filt = <<(<<>>), (<<>>), (<<>>)>>
  /\ temp_filt = <<>>
  /\ pc = "header"
  /\ BatchStart

\* next(csv_reader) skips the first line
P14Header ==
  /\ module = "process_imu" /\ pc = "header"
  /\ file # <<>>
  /\ line_num' = 1
  /\ pc' = "rows"
  /\ UNCHANGED <<module, captureState, file, calib, valid_line_count,
                 time_stamps, accel, gyro, temperature, accel_filt, gyro_filt,
                 temp_filt, temp_windows, result>>

\* next(csv_reader) on a file without lines raises StopIteration
P14NoHeader ==
  /\ module = "process_imu" /\ pc = "header"
  /\ file = <<>>
  /\ result' = [kind |-> "StopIteration", value |-> <<>>]
  /\ pc' = "done"
  /\ UNCHANGED <<module, captureState, batchVars>>

\* len(parts) != 14: continue
P14SkipColumns ==
  /\ module = "process_imu" /\ pc = "rows"
  /\ line_num < Len(file)
  /\ Len(CsvRow(file[line_num + 1])) # 14
  /\ line_num' = line_num + 1
  /\ UNCHANGED <<module, captureState, file, calib, valid_line_count,
                 time_stamps, accel, gyro, temperature, accel_filt, gyro_filt,
                 temp_filt, temp_windows, pc, result>>

\* a conversion raises ValueError before anything is stored: continue
P14SkipValue ==
  /\ module = "process_imu" /\ pc = "rows"
  /\ line_num < Len(file)
  /\ \E parts \in {CsvRow(file[line_num + 1])} :
       Len(parts) = 14 /\ ~Row14Ok(parts)
  /\ line_num' = line_num + 1
  /\ UNCHANGED <<module, captureState, file, calib, valid_line_count,
                 time_stamps, accel, gyro, temperature, accel_filt, gyro_filt,
                 temp_filt, temp_windows, pc, result>>

\* the row is converted, calibrated, stamped and stored
P14Store ==
  /\ module = "process_imu" /\ pc = "rows"
  /\ line_num < Len(file)
  /\ \E parts \in {CsvRow(file[line_num + 1])} :
        /\ Len(parts) = 14 /\ Row14Ok(parts)
        /\ LET accel_raw == [i \in 1..3 |-> FloatVal(parts[i])]
               gyro_raw == [i \in 1..3 |-> FloatVal(parts[i + 3])]
               temp == IntVal(parts[7])
               accel_filt_raw == [i \in 1..3 |-> FloatVal(parts[i + 7])]
               gyro_filt_raw == [i \in 1..3 |-> FloatVal(parts[i + 10])]
               temp_filt_raw == IntVal(parts[14])
               t == Stamp14(valid_line_count, line_num)
           IN /\ time_stamps' = Append(time_stamps, t)
              /\ valid_line_count' = valid_line_count + 1
              /\ accel' = AxesAppend(accel, AccelCal(calib, accel_raw))
              /\ gyro' = AxesAppend(gyro, GyroCal(calib, gyro_raw))
              /\ accel_filt' = AxesAppend(accel_filt, FiltPass(calib, accel_filt_raw))
              /\ gyro_filt' = AxesAppend(gyro_filt, FiltPass(calib, gyro_filt_raw))
              /\ temperature' = Append(temperature, temp)
              /\ temp_filt' = Append(temp_filt, temp_filt_raw)
              /\ temp_windows' = WindowAppend(temp_windows, WindowIdx(t), temp)
  /\ line_num' = line_num + 1
  /\ UNCHANGED <<module, captureState, file, calib, pc, result>>

\* the file is exhausted: window averages, statistics, return
P14Return ==
  /\ module = "process_imu" /\ pc = "rows"
  /\ line_num = Len(file)
  /\ result' = [kind |-> "return", value |-> Return14]
  /\ pc' = "done"
  /\ UNCHANGED <<module, captureState, batchVars>>

Proc14Next ==
  \/ P14Header \/ P14NoHeader \/ P14SkipColumns \/ P14SkipValue \/ P14Store
  \/ P14Return

SpecProc14 == Proc14Init /\ [][Proc14Next]_vars

----------------------------------------------------------------------------
(* imu_data_process.py, step by step.  The line at hand is                 *)
(* file[line_num + 1]; enumerate(f) numbers it line_num.                   *)

Proc7Init ==
  /\ module = "imu_data_process"
  /\ file \in Files7
  /\ accel_filt = <<>>
  /\ gyro_filt = <<>>
  /\ temp_filt = <<>>
  /\ pc = "rows"
  /\ BatchStart

\* map(float, ...) raises ValueError, or len(parts) != 7 does: continue
P7Skip ==
  /\ module = "imu_data_process" /\ pc = "rows"
  /\ line_num < Len(file)
  /\ ~Row7Ok(file[line_num + 1])
  /\ line_num' = line_num + 1
  /\ UNCHANGED <<module, captureState, file, calib, valid_line_count,
                 time_stamps, accel, gyro, temperature, accel_filt, gyro_filt,
                 temp_filt, temp_windows, pc, result>>

\* the line is converted, calibrated, stamped and stored
P7Store ==
  /\ module = "imu_data_process" /\ pc = "rows"
  /\ line_num < Len(file)
  /\ Row7Ok(file[line_num + 1])
  /\ \E f \in {Split(Strip(file[line_num + 1]), <<COMMA>>)} :
     LET parts == <<FloatVal(f[1]), FloatVal(f[2]), FloatVal(f[3]),
                    FloatVal(f[4]), FloatVal(f[5]), FloatVal(f[6]),
                    FloatVal(f[7])>>
         t == Stamp7(valid_line_count, line_num)
     IN /\ accel' = AxesAppend(accel, AccelCal(calib, SubSeq(parts, 1, 3)))
        /\ gyro' = AxesAppend(gyro, GyroCal(calib, SubSeq(parts, 4, 6)))
        /\ time_stamps' = Append(time_stamps, t)
        /\ temp_windows' = WindowAppend(temp_windows, WindowIdx(t), parts[7])
        /\ temperature' = Append(temperature, parts[7])
  /\ line_num' = line_num + 1
  /\ UNCHANGED <<module, captureState, file, calib, valid_line_count,
                 accel_filt, gyro_filt, temp_filt, pc, result>>

\* the file is exhausted and every axis has a sample: return
P7Return ==
  /\ module = "imu_data_process" /\ pc = "rows"
  /\ line_num = Len(file)
  /\ ~StatsRaises(accel) /\ ~StatsRaises(gyro)
  /\ result' = [kind |-> "return", value |-> Return7]
  /\ pc' = "done"
  /\ UNCHANGED <<module, captureState, batchVars>>

\* the file is exhausted and an axis is empty: sum(ch)/len(ch) divides by zero
P7ZeroDivision ==
  /\ module = "imu_data_process" /\ pc = "rows"
  /\ line_num = Len(file)
  /\ StatsRaises(accel) \/ StatsRaises(gyro)
  /\ result' = [kind |-> "ZeroDivisionError", value |-> <<>>]
  /\ pc' = "done"
  /\ UNCHANGED <<module, captureState, batchVars>>

Proc7Next == P7Skip \/ P7Store \/ P7Return \/ P7ZeroDivision

SpecProc7 == Proc7Init /\ [][Proc7Next]_vars

----------------------------------------------------------------------------
(* Every program of the repository.                                        *)

Init == CaptureInit \/ Proc14Init \/ Proc7Init

Next == CaptureNext \/ Proc14Next \/ Proc7Next

Spec == Init /\ [][Next]_vars

\* the programs that store records in parallel lists:
\* imu_calibration/serial_capture.py and the two batch processors
SpecRecords ==
  /\ (CaptureInit /\ module = "imu_calibration") \/ Proc14Init \/ Proc7Init
  /\ [][Next]_vars

\* the two batch processors
SpecBatch ==
  (Proc14Init \/ Proc7Init) /\ [][Proc14Next \/ Proc7Next]_vars

\* the two programs that reject a line by its number of fields
SpecFieldCount ==
  (CaptureInit \/ Proc14Init) /\ [][CaptureNext \/ Proc14Next]_vars

----------------------------------------------------------------------------
(* Properties of capture_serial_data.                                      *)

Capturing == module \in {"imu_calibration", "accely"}

\* a framing pass is not in progress
PassDone == Capturing /\ pc \notin {"drain", "classify"}

\* number of comma-separated fields of a line
FieldCount(ln) == Count(ln, COMMA) + 1

\* the fields of a line
Fields(ln) == Split(ln, <<COMMA>>)

\* C1: however the received bytes were cut into polls, each time a framing
\* pass is over and when the function has ended, the decoded lines handed to
\* the classifier, the buffer, raw_data, filtered_data, quat_data and
\* invalid_count are those of one poll that returns all the received bytes at
\* once; a returned value is that one too.
C1_ChunkInvariance ==
  (Capturing /\ pc \in {"loop", "done"}) =>
    LET one == SingleChunk(module, Received)
    IN /\ lines = one.lines
       /\ Acc = one.acc
       /\ buffer = one.buffer
       /\ result.kind = "return" => result.value = ReturnOf(module, one.acc)

\* a run that returned after a line reached it in two reads, with a record,
\* a rejected line and at least two lines framed
C1_Witness ==
  /\ Capturing /\ pc = "done" /\ result.kind = "return"
  /\ carried /\ Len(lines) >= 2 /\ raw_data # <<>> /\ invalid_count > 0

\* C4: whenever the byte source is polled or about to be (no framing pass is
\* in progress), the buffer holds no line terminator.
C4_BufferDrained == PassDone => ~Contains(buffer, NL)

\* a poll is due after passes that framed a line which reached the buffer in
\* more than one read, and left a partial line
C4_Witness ==
  /\ Capturing /\ pc = "read" /\ Len(lines) >= 1 /\ buffer # <<>> /\ carried

\* C5: every terminator taken out of the buffer gave one line, and every
\* line gave exactly one outcome: outside the classifier the lines framed
\* are as many as the records plus the invalid count; while a line is being
\* classified it is already out of the buffer and not yet counted.
C5_ExactlyOnce ==
  Capturing =>
    /\ Len(lines) = Count(Received, NL) - Count(buffer, NL)
    /\ Len(lines) =
         Len(raw_data) + Len(quat_data) + invalid_count
           + (IF pc = "classify" THEN 1 ELSE 0)
    /\ module = "accely" => quat_data = <<>>

\* a malformed line has been counted once, another line has been framed
\* after it and is about to be classified
C5_Witness ==
  /\ Capturing /\ pc = "classify" /\ invalid_count = 1 /\ Len(lines) = 2
  /\ Len(raw_data) + Len(quat_data) = 0

\* C7 as stated: a line without the marker, with 6 commas and seven numeric
\* fields always appends one record and leaves invalid_count alone.
C7_AllNumericYieldsRecord ==
  [][(/\ pc = "classify"
      /\ ~StartsWith(line, Marker)
      /\ Count(line, COMMA) = 6
      /\ \A k \in 1..7 : FloatOk(Fields(line)[k]))
     => /\ Len(raw_data') = Len(raw_data) + 1
        /\ invalid_count' = invalid_count]_vars

\* C7 amended: a line without the marker, with 6 commas, whose first six
\* fields are float literals and whose seventh is an integer literal appends
\* exactly the record (3 accelerometer, 3 gyroscope, 1 temperature value, in
\* input order) to raw_data and leaves invalid_count alone.
C7_SensorLineYieldsRecord ==
  [][(/\ pc = "classify"
      /\ ~StartsWith(line, Marker)
      /\ Count(line, COMMA) = 6
      /\ \A k \in 1..6 : FloatOk(Fields(line)[k])
      /\ IntOk(Fields(line)[7]))
     => /\ raw_data' =
             Append(raw_data,
                    <<FloatVal(Fields(line)[1]), FloatVal(Fields(line)[2]),
                      FloatVal(Fields(line)[3]), FloatVal(Fields(line)[4]),
                      FloatVal(Fields(line)[5]), FloatVal(Fields(line)[6]),
                      IntVal(Fields(line)[7])>>)
        /\ invalid_count' = invalid_count
        /\ quat_data' = quat_data]_vars

\* the line "1.5,-2,3,4,5,6,7" has been classified and stored
C7_Witness ==
  /\ Capturing /\ pc = "drain" /\ Len(lines) = 1
  /\ lines[1] = <<49, 46, 53, 44, 45, 50, 44, 51, 44, 52, 44, 53, 44, 54, 44, 55>>
  /\ raw_data = << <<(<<3, 2>>), (<<-2, 1>>), (<<3, 1>>), (<<4, 1>>),
                     (<<5, 1>>), (<<6, 1>>), 7>> >>
  /\ invalid_count = 0

\* C8 as stated: when acquisition ends after records were collected, by the
\* deadline or by a transport failure, the caller receives them.
C8_PartialDataReturned ==
  (Capturing /\ pc = "done" /\ raw_data # <<>>)
    => (result.kind = "return" /\ result.value = ReturnValue)

----------------------------------------------------------------------------
(* Properties of the batch processors.                                     *)

\* the row process_imu.py is about to handle
RowAtHand == CsvRow(file[line_num + 1])

\* rows of the file that process_imu.py stores
Valid14(text) == Len(CsvRow(text)) = 14 /\ Row14Ok(CsvRow(text))

\* what process_imu_data accumulates
accumulators ==
  <<valid_line_count, time_stamps, accel, gyro, temperature, accel_filt,
    gyro_filt, temp_filt, temp_windows>>

\* C2: in process_imu.py the k-th stored record (k from 0) has time stamp
\* k * 0.005 s (5 ms), and the records stored are exactly the valid rows
\* consumed, whatever invalid rows lie before or between them.
C2_StampsCountValidRows ==
  module = "process_imu" =>
    /\ \A k \in 1..Len(time_stamps) : time_stamps[k] = (k - 1) * 5
    /\ Len(time_stamps) =
         Cardinality({i \in 2..line_num : Valid14(file[i])})

\* a file whose rows are valid, invalid, valid has been processed
C2_Witness ==
  /\ module = "process_imu" /\ pc = "done" /\ result.kind = "return"
  /\ Len(file) = 4
  /\ Valid14(file[2]) /\ ~Valid14(file[3]) /\ Valid14(file[4])
  /\ time_stamps = <<0, 5>>

\* C3 as stated: in imu_data_process.py the first stored sample has time
\* stamp 0 and consecutive stored samples are 0.005 s (5 ms) apart, whatever
\* lines were skipped.
C3_StampsCountValidSamples ==
  module = "imu_data_process" =>
    \A k \in 1..Len(time_stamps) : time_stamps[k] = (k - 1) * 5

\* C6 as stated: a line whose field count is other than 7 or 14 appends no
\* record and adds one to invalid_count in capture_serial_data, which goes on
\* draining; in process_imu.py such a row changes no accumulator and the loop
\* goes on.
C6_OddFieldCountInvalid ==
  [][/\ (Capturing /\ pc = "classify" /\ FieldCount(line) \notin {7, 14})
        => /\ raw_data' = raw_data
           /\ filtered_data' = filtered_data
           /\ quat_data' = quat_data
           /\ invalid_count' = invalid_count + 1
           /\ pc' = "drain"
     /\ (/\ module = "process_imu" /\ pc = "rows" /\ line_num < Len(file)
         /\ Len(RowAtHand) \notin {7, 14})
        => /\ accumulators' = accumulators
           /\ line_num' = line_num + 1
           /\ pc' = "rows"]_vars

\* C6 amended: the same, for a line the quaternion branch does not take (in
\* imu_calibration/serial_capture.py: a line that does not start with
\* "Quaternion:").
C6_OddFieldCountInvalidUnlessQuaternion ==
  [][/\ (/\ Capturing /\ pc = "classify" /\ FieldCount(line) \notin {7, 14}
         /\ ~(module = "imu_calibration" /\ StartsWith(line, Marker)))
        => /\ raw_data' = raw_data
           /\ filtered_data' = filtered_data
           /\ quat_data' = quat_data
           /\ invalid_count' = invalid_count + 1
           /\ pc' = "drain"
     /\ (/\ module = "process_imu" /\ pc = "rows" /\ line_num < Len(file)
         /\ Len(RowAtHand) \notin {7, 14})
        => /\ accumulators' = accumulators
           /\ line_num' = line_num + 1
           /\ pc' = "rows"]_vars

\* after a stored record, the empty line between two terminators has been
\* classified: it is counted once and the loop is draining again
C6_Witness ==
  /\ Capturing /\ pc = "drain" /\ Len(lines) = 2 /\ lines[2] = <<>>
  /\ Len(raw_data) = 1 /\ quat_data = <<>> /\ invalid_count = 1

C10_EmptyChannelStats7 ==
  (module = "imu_data_process" /\ pc = "done" /\ time_stamps = <<>>) =>
    /\ result.kind = "return"
    /\ result.value.accel =
         [bias |-> <<(<<0, 1>>), (<<0, 1>>), (<<0, 1>>)>>,
          std |-> <<(<<0, 1>>), (<<0, 1>>), (<<0, 1>>)>>,
          unit |-> "g"]
    /\ result.value.gyro =
         [bias |-> <<(<<0, 1>>), (<<0, 1>>), (<<0, 1>>)>>,
          std |-> <<(<<0, 1>>), (<<0, 1>>), (<<0, 1>>)>>,
          unit |-> "dps"]

\* a batch processor is the running program
Batch == module \in {"process_imu", "imu_data_process"}

\* the fields of the line a batch processor is about to handle
FieldsAtHand ==
  IF module = "process_imu" THEN CsvRow(file[line_num + 1])
  ELSE Split(Strip(file[line_num + 1]), <<COMMA>>)

\* the line at hand is a valid record
ValidAtHand ==
  /\ Batch /\ pc = "rows" /\ line_num < Len(file)
  /\ IF module = "process_imu" THEN Valid14(file[line_num + 1])
     ELSE Row7Ok(file[line_num + 1])

\* C11: for every valid record and every calibration profile both batch
\* processors store accel[i] = (accel_raw[i] - accel_bias[i]) * accel_scale[i]
\* and gyro[i] = gyro_raw[i] - gyro_bias[i] for the three axes and the
\* temperature as parsed; with accel_bias = [1,0,0], accel_scale = [2,1,1],
\* gyro_bias = [0,0,0] the record (3,0,0,1,1,1,25) is stored as accel (4,0,0),
\* gyro (1,1,1), temperature 25.
C11_CalibrationFormula ==
  [][ValidAtHand =>
       \E f \in {FieldsAtHand} :
         /\ \A i \in 1..3 :
              /\ accel'[i] =
                   Append(accel[i],
                          RMul(RSub(FloatVal(f[i]), calib.accel_bias[i]),
                               calib.accel_scale[i]))
              /\ gyro'[i] =
                   Append(gyro[i], RSub(FloatVal(f[i + 3]), calib.gyro_bias[i]))
         /\ temperature' =
              Append(temperature,
                     IF module = "process_imu" THEN IntVal(f[7])
                     ELSE FloatVal(f[7]))
         /\ (/\ calib = [accel_bias |-> <<(<<1, 1>>), (<<0, 1>>), (<<0, 1>>)>>,
                         accel_scale |-> <<(<<2, 1>>), (<<1, 1>>), (<<1, 1>>)>>,
                         gyro_bias |-> <<(<<0, 1>>), (<<0, 1>>), (<<0, 1>>)>>]
             /\ SubSeq(f, 1, 7) = <<(<<51>>), (<<48>>), (<<48>>), (<<49>>),
                                    (<<49>>), (<<49>>), (<<50, 53>>)>>)
            => /\ accel' = [i \in 1..3 |->
                              Append(accel[i], IF i = 1 THEN <<4, 1>> ELSE <<0, 1>>)]
               /\ gyro' = [i \in 1..3 |-> Append(gyro[i], <<1, 1>>)]
               /\ temperature'[Len(temperature')] =
                    (IF module = "process_imu" THEN 25 ELSE <<25, 1>>)]_vars

\* the record (3,0,0,1,1,1,25) has been stored under that profile
C11_Witness ==
  /\ Batch /\ Len(time_stamps) = 1
  /\ calib.accel_bias[1] = <<1, 1>> /\ calib.accel_scale[1] = <<2, 1>>
  /\ accel = <<(<< (<<4, 1>>) >>), (<< (<<0, 1>>) >>), (<< (<<0, 1>>) >>)>>
  /\ gyro = <<(<< (<<1, 1>>) >>), (<< (<<1, 1>>) >>), (<< (<<1, 1>>) >>)>>
  /\ temperature = (IF module = "process_imu" THEN <<25>> ELSE << (<<25, 1>>) >>)

\* the readings among the first n whose time stamp lies in window idx, in
\* arrival order
RECURSIVE InWindow(_, _)
InWindow(idx, n) ==
  IF n = 0 THEN <<>>
  ELSE IF (time_stamps[n] * 10) \div 1000 = idx
       THEN Append(InWindow(idx, n - 1), temperature[n])
  ELSE InWindow(idx, n - 1)

\* the number of readings in the buckets with index in S
RECURSIVE BucketSizes(_)
BucketSizes(S) ==
  IF S = {} THEN 0
  ELSE LET k == CHOOSE x \in S : TRUE
       IN Len(temp_windows[k]) + BucketSizes(S \ {k})

\* C12: in both batch processors the temperature of each stored sample is in
\* exactly one bucket, the one with index floor(timestamp * 10); a bucket
\* holds its readings in arrival order; the bucket sizes add up to the number
\* of stored samples.
C12_WindowBucketing ==
  Batch =>
    /\ DOMAIN temp_windows =
         {(time_stamps[k] * 10) \div 1000 : k \in 1..Len(time_stamps)}
    /\ \A idx \in DOMAIN temp_windows :
         temp_windows[idx] = InWindow(idx, Len(time_stamps))
    /\ BucketSizes(DOMAIN temp_windows) = Len(time_stamps)

\* window 0 is full and window 1 holds two different readings
C12_Witness ==
  /\ Batch /\ pc = "done" /\ DOMAIN temp_windows = {0, 1}
  /\ Len(temp_windows[0]) = 20 /\ Len(temp_windows[1]) = 2
  /\ temp_windows[1][1] # temp_windows[1][2]
  /\ temperature[21] = temp_windows[1][1]

\* a reading as the float the average is computed from
AsRat(v) == IF module = "process_imu" THEN RInt(v) ELSE v

\* C13: when a batch processor returns, window_centers and temp_avg hold one
\* point for each window that received a sample and none for any other
\* window, in strictly ascending order of the window index, with center
\* index * 0.1 + 0.05 (in ms: index * 100 + 50) and value
\* sum(bucket)/len(bucket); the two lists have the same length, the number
\* of non-empty windows.
C13_WindowEmission ==
  (Batch /\ pc = "done" /\ result.kind = "return") =>
    LET centers == result.value.temp_avg[1]
        avgs == result.value.temp_avg[2]
        filled == {idx \in DOMAIN temp_windows : temp_windows[idx] # <<>>}
    IN /\ Len(centers) = Cardinality(filled)
       /\ Len(avgs) = Len(centers)
       /\ \A j \in 1..(Len(centers) - 1) : centers[j] < centers[j + 1]
       /\ \A j \in 1..Len(centers) :
            \E idx \in filled :
              /\ centers[j] = idx * 100 + 50
              /\ avgs[j] =
                   RDiv(RSum([k \in 1..Len(temp_windows[idx]) |->
                                AsRat(temp_windows[idx][k])]),
                        RInt(Len(temp_windows[idx])))

\* window 0 received no sample and window 1 received two: one point, at 0.15 s
C13_Witness ==
  /\ module = "imu_data_process" /\ pc = "done" /\ result.kind = "return"
  /\ DOMAIN temp_windows = {1} /\ Len(temp_windows[1]) = 2
  /\ result.value.temp_avg[1] = <<150>>
  /\ Len(result.value.temp_avg[2]) = 1

\* the square of a standard deviation: <<n, d, 2>> stands for sqrt(n/d)
Squared(sd) ==
  IF Len(sd) = 3 THEN <<sd[1], sd[2]>> ELSE RMul(sd, sd)

\* C15: for a channel with at least one sample on each axis calc_stats of
\* both batch processors returns per axis the mean sum/count and the
\* population standard deviation sqrt(sum((x-mean)^2)/count), with divisor
\* count; samples [1,2,3] give mean 2 and variance 2/3.
C15_PopulationStd ==
  (Batch /\ pc = "done" /\ result.kind = "return" /\ time_stamps # <<>>) =>
    \A i \in 1..3 :
      /\ \E n \in {Len(accel[i])} : \E m \in {RDiv(RSum(accel[i]), RInt(n))} :
           /\ result.value.accel.bias[i] = m
           /\ Squared(result.value.accel.std[i]) =
                RDiv(RSum([k \in 1..n |->
                             RMul(RSub(accel[i][k], m), RSub(accel[i][k], m))]),
                     RInt(n))
           /\ result.value.accel.std[i][1] >= 0
      /\ \E n \in {Len(gyro[i])} : \E m \in {RDiv(RSum(gyro[i]), RInt(n))} :
           /\ result.value.gyro.bias[i] = m
           /\ Squared(result.value.gyro.std[i]) =
                RDiv(RSum([k \in 1..n |->
                             RMul(RSub(gyro[i][k], m), RSub(gyro[i][k], m))]),
                     RInt(n))
           /\ result.value.gyro.std[i][1] >= 0

\* the gyroscope x axis holds the samples 1, 2, 3
C15_Witness ==
  /\ module = "imu_data_process" /\ pc = "done" /\ result.kind = "return"
  /\ gyro[1] = <<(<<1, 1>>), (<<2, 1>>), (<<3, 1>>)>>
  /\ result.value.gyro.bias[1] = <<2, 1>>
  /\ result.value.gyro.std[1] = <<2, 3, 2>>

\* C20: in process_imu.py the filtered fields of every valid row (columns
\* 7-9, 10-12 and 13) are stored in accel_filt, gyro_filt and temp_filt with
\* their parsed values under every calibration profile; no bias and no scale
\* is applied to them.
C20_FilteredPassThrough ==
  [][(module = "process_imu" /\ ValidAtHand) =>
       \E f \in {CsvRow(file[line_num + 1])} :
         /\ \A i \in 1..3 :
              /\ accel_filt'[i] = Append(accel_filt[i], FloatVal(f[7 + i]))
              /\ gyro_filt'[i] = Append(gyro_filt[i], FloatVal(f[10 + i]))
         /\ temp_filt' = Append(temp_filt, IntVal(f[14]))]_vars

\* the row (1.5,2,-3,3,0.5,0,30,1,2,3,0,0,0,31) has been stored under a profile
\* that changes its raw accelerometer and gyroscope fields
C20_Witness ==
  /\ module = "process_imu" /\ Len(time_stamps) = 1
  /\ accel = <<(<< (<<3, 2>>) >>), (<< (<<3, 1>>) >>), (<< (<<-7, 2>>) >>)>>
  /\ gyro = <<(<< (<<5, 2>>) >>), (<< (<<1, 2>>) >>), (<< (<<1, 1>>) >>)>>
  /\ accel_filt = <<(<< (<<1, 1>>) >>), (<< (<<2, 1>>) >>), (<< (<<3, 1>>) >>)>>
  /\ gyro_filt = <<(<< (<<0, 1>>) >>), (<< (<<0, 1>>) >>), (<< (<<0, 1>>) >>)>>
  /\ temp_filt = <<31>>

----------------------------------------------------------------------------
(* Further properties of capture_serial_data.                              *)

\* C14: in imu_calibration/serial_capture.py a line that starts with
\* "Quaternion:" is handled by the quaternion branch only, whatever its
\* number of commas: raw_data and filtered_data are unchanged, and either the
\* line parses and exactly the entry [w, x, y, z] is appended to quat_data,
\* or it does not, nothing is appended and invalid_count grows by one; the
\* loop goes on draining.
C14_QuaternionFirst ==
  [][(module = "imu_calibration" /\ pc = "classify" /\ StartsWith(line, Marker))
       => /\ raw_data' = raw_data
          /\ filtered_data' = filtered_data
          /\ pc' = "drain"
          /\ result' = result
          /\ IF QuatOk(line)
             THEN /\ quat_data' = Append(quat_data, QuatVal(line))
                  /\ Len(QuatVal(line)) = 4
                  /\ invalid_count' = invalid_count
             ELSE /\ quat_data' = quat_data
                  /\ invalid_count' = invalid_count + 1]_vars

\* a marker line with exactly 6 commas has been stored as a quaternion
C14_Witness ==
  /\ module = "imu_calibration" /\ pc = "drain" /\ Len(lines) = 1
  /\ StartsWith(lines[1], Marker) /\ Count(lines[1], COMMA) = 6
  /\ quat_data = << <<(<<1, 1>>), (<<1, 2>>), (<<0, 1>>), (<<0, 1>>)>> >>
  /\ raw_data = <<>> /\ invalid_count = 0

\* C16 as stated: when the port was opened and no byte was received during
\* the whole acquisition, capture_serial_data does not end in a normal return.
C16_NoBytesIsDistinct ==
  (Capturing /\ pc = "done" /\ ser = "closed" /\ pos = 0) =>
    result.kind # "return"

\* s without its first n terminated spans
RECURSIVE DropLines(_, _)
DropLines(s, n) ==
  IF n = 0 THEN s
  ELSE DropLines(SubSeq(s, Index(s, NL) + 1, Len(s)), n - 1)

\* the bytes of s after its last terminator
AfterLastNL(s) ==
  LET at == {k \in 1..Len(s) : s[k] = NL}
  IN IF at = {} THEN s
     ELSE SubSeq(s, (CHOOSE m \in at : \A k \in at : k <= m) + 1, Len(s))

\* C17: the buffer always is the received bytes without the spans already
\* framed, so bytes without a terminator stay in it, in front of the bytes of
\* the next poll; after every framing pass it is exactly the bytes received
\* after the last terminator; bytes still unterminated when the function
\* returns were not classified: the lines classified, and the records plus
\* invalid_count, number the terminators received.
C17_TailRetained ==
  Capturing =>
    /\ buffer = DropLines(Received, Len(lines))
    /\ PassDone => buffer = AfterLastNL(Received)
    /\ (pc = "done" /\ result.kind = "return") =>
         /\ Len(lines) = Count(Received, NL)
         /\ Len(raw_data) + Len(quat_data) + invalid_count = Count(Received, NL)

\* the function has returned with unterminated bytes in the buffer, after a
\* line was framed and a poll was appended to bytes left in the buffer
C17_Witness ==
  /\ Capturing /\ pc = "done" /\ result.kind = "return"
  /\ Len(lines) = 1 /\ Len(buffer) >= 2 /\ carried
  /\ buffer = AfterLastNL(stream) /\ pos = Len(stream)

\* C18: for every terminated span at the head of the buffer, whether or not
\* it is valid UTF-8, the next step produces exactly one decoded line (the
\* stripped UTF-8 text, or else the stripped text whose code points are the
\* bytes of the same span), removes the span and its terminator from the
\* buffer, leaves invalid_count as it is and raises nothing.
C18_DecodeNeverFails ==
  [][(Capturing /\ pc = "drain" /\ Contains(buffer, NL)) =>
       \E n \in {MinOf({k \in 1..Len(buffer) : buffer[k] = NL})} :
         \E span \in {SubSeq(buffer, 1, n - 1)} :
           /\ pc' = "classify"
           /\ line' = Strip(IF Utf8Valid(span) THEN Utf8Decode(span) ELSE span)
           /\ lines' = Append(lines, line')
           /\ buffer' = SubSeq(buffer, n + 1, Len(buffer))
           /\ invalid_count' = invalid_count
           /\ result' = result]_vars

\* a span that is not UTF-8 (0xA0 before "1,2,3,4,5,6,7.5") has been decoded
C18_Witness ==
  /\ Capturing /\ pc = "classify" /\ Len(lines) = 1 /\ stream # <<>>
  /\ stream[1] = 160
  /\ line = <<49, 44, 50, 44, 51, 44, 52, 44, 53, 44, 54, 44, 55, 46, 53>>

\* C19: a SerialException changes nothing and leads to the handler; from
\* there no byte is read, no line is framed or classified and no accumulator
\* changes; and on every path the function ends with a port that was opened
\* closed.
C19_AbortAndRelease ==
  [][Capturing =>
       /\ (pc = "read" /\ pc' = "except") => captureVars' = captureVars
       /\ pc \in {"except", "finally"} =>
            /\ pc' \in {"finally", "done"}
            /\ pos' = pos /\ buffer' = buffer /\ lines' = lines
            /\ raw_data' = raw_data /\ filtered_data' = filtered_data
            /\ quat_data' = quat_data /\ invalid_count' = invalid_count
       /\ pc' = "done" => ser' \in {"closed", "unbound"}
       /\ (pc' = "done" /\ ser \in {"open", "closed"}) => ser' = "closed"]_vars

\* a fault in the middle of the stream: the function has ended with the port
\* closed and the rest of the stream unread
C19_Witness ==
  /\ Capturing /\ pc = "done" /\ result.kind = "SystemExit"
  /\ ser = "closed" /\ pos > 0 /\ pos < Len(stream) /\ raw_data # <<>>

\* the function is inside the polling loop
InLoop == pc \in {"loop", "read", "drain", "classify"}

\* C21: capture_serial_data terminates.  Every line extraction shortens the
\* buffer, so a framing pass always comes back to the deadline test; when the
\* clock reaches the deadline the function ends; the test that finds the
\* deadline reached starts no poll and returns the accumulators; and the
\* polling loop is left in no other way than by that test or by a
\* SerialException.
C21_Terminates ==
  /\ [][(pc = "drain" /\ pc' = "classify") => Len(buffer') < Len(buffer)]_vars
  /\ (Capturing /\ pc \in {"drain", "classify"}) ~> (pc = "loop")
  /\ <>(pc = "done")
  /\ [][(InLoop /\ ~InLoop') =>
          \/ /\ pc = "loop" /\ pc' = "finally"
             /\ result' = [kind |-> "return", value |-> ReturnValue]
             /\ pos' = pos
          \/ /\ pc = "read" /\ pc' = "except"]_vars
  /\ [][(~InLoop /\ pc # "open") => ~InLoop']_vars

\* the function has returned at the deadline after the whole stream was
\* read and two lines were extracted
C21_Witness ==
  /\ Capturing /\ pc = "done" /\ result.kind = "return"
  /\ Len(lines) >= 2 /\ pos = Len(stream) /\ ser = "closed"

----------------------------------------------------------------------------
(* Properties of every program.                                            *)

\* the rows of Lines14 that process_imu.py stores
ValidLines14 == {x \in Lines14 : Valid14(x)}

\* the lines of Lines7 that imu_data_process.py stores
ValidLines7 == {x \in Lines7 : Row7Ok(x)}

\* the line is a valid record of the running batch processor
ValidRecord(text) ==
  IF module = "process_imu"
  THEN (IF text \in Lines14 THEN text \in ValidLines14 ELSE Valid14(text))
  ELSE (IF text \in Lines7 THEN text \in ValidLines7 ELSE Row7Ok(text))

\* the lines a batch processor has handled that are valid records
ValidRecords ==
  Cardinality({i \in (IF module = "process_imu" THEN 2 ELSE 1)..line_num :
                 ValidRecord(file[i])})

\* the lists a batch processor appends to for each record
RecordLists ==
  <<time_stamps, temperature>> \o accel \o gyro
    \o (IF module = "process_imu"
        THEN accel_filt \o gyro_filt \o <<temp_filt>> ELSE <<>>)

\* the line at hand goes to the sensor branch and a conversion fails
SensorLineFails ==
  /\ module = "imu_calibration" /\ pc = "classify"
  /\ Branch(module, line) = "sensor" /\ ~SensorOk(line)

\* C22: record storage is all-or-nothing.  In both batch processors every
\* list filled per record (time_stamps, temperature, the three axes of accel
\* and of gyro, and in process_imu.py the three axes of accel_filt and of
\* gyro_filt and temp_filt) has as many entries as there are valid records
\* among the lines handled, the temperature windows hold as many readings,
\* and in process_imu.py valid_line_count is that number;
\* imu_calibration/serial_capture.py keeps raw_data and filtered_data equally
\* long.  A line whose conversion fails, at whichever field, changes none of
\* the lists, counters of valid samples or temperature windows: a batch
\* processor only moves to the next line, and the capture only counts the line
\* as invalid.
C22_AllOrNothing ==
  /\ [](Batch =>
          LET n == ValidRecords
              lists == RecordLists
          IN /\ \A k \in 1..Len(lists) : Len(lists[k]) = n
             /\ BucketSizes(DOMAIN temp_windows) = n
             /\ module = "process_imu" => valid_line_count = n)
  /\ [](module = "imu_calibration" => Len(raw_data) = Len(filtered_data))
  /\ [][(Batch /\ pc = "rows" /\ line_num < Len(file) /\ ~ValidAtHand) =>
          /\ line_num' = line_num + 1
          /\ UNCHANGED accumulators]_vars
  /\ [][SensorLineFails =>
          /\ invalid_count' = invalid_count + 1
          /\ UNCHANGED <<raw_data, filtered_data, quat_data>>]_vars

\* process_imu.py has stored one record and then skipped a row of 14 columns
\* whose first 13 convert and whose last field is no int
C22_Witness ==
  /\ module = "process_imu" /\ pc = "rows" /\ line_num = 3
  /\ Valid14(file[2])
  /\ Len(CsvRow(file[3])) = 14
  /\ \A k \in (1..6) \cup (8..13) : FloatOk(CsvRow(file[3])[k])
  /\ IntOk(CsvRow(file[3])[7]) /\ ~IntOk(CsvRow(file[3])[14])
  /\ valid_line_count = 1 /\ time_stamps = <<0>>
  /\ \A k \in 1..Len(RecordLists) : Len(RecordLists[k]) = 1

=============================================================================
